---- MODULE Spec2Model ----
(***************************************************************************)
(* Time index, sidecar codec and range response writer of the playback     *)
(* server (internal/playback) of mediamtx.                                 *)
(*                                                                         *)
(* One recording path is modelled: every operation of the index takes the  *)
(* path name as its key and touches only that key's list and running flag. *)
(* The path is an ordinary fragmented-MP4 path with NumSegs segments on     *)
(* disk, so IndexPath passes its three early returns (reserved name, no    *)
(* segments, record format).                                               *)
(*                                                                         *)
(* Times are ticks of a wall clock; Second ticks make one second.          *)
(* Truncate(0) strips the monotonic reading of a time.Time and leaves the  *)
(* instant alone, so an instant is a natural number.                       *)
(***************************************************************************)
EXTENDS Integers, Sequences, FiniteSets, TLC

\* ------------------------------------------------------------------ bounds

NumSegs == 2
NumRebuilders == 2
MaxUpdates == 1
MaxTotal == 4
MaxLen == 3
MaxTime == 3
MaxCand == 3
MaxMoofs == 2
MaxTrafs == 2

\* ------------------------------------------------------- program constants

\* make([]indexEntry, 0, 128): capacity of a fresh list
InitialCap == 128
\* time.Second, in ticks
Second == 2
\* math.MaxInt, of a 32-bit int
MaxInt == 2147483647

Segs == 1 .. NumSegs
Rebuilders == 1 .. NumRebuilders

\* ------------------------------------------------------------ index entries

Entry(t, o) == [time |-> t, offset |-> o]

\* func indexCmp(a, b indexEntry) int { return int(a.Time.Sub(b.Time)) }
indexCmp(a, b) == a.time - b.time

\* the place a stable sort gives element i of s: behind every element that
\* compares less and every earlier element that compares equal
StableRank(s, i) ==
    Cardinality({ j \in 1 .. Len(s) :
                    \/ indexCmp(s[j], s[i]) < 0
                    \/ (indexCmp(s[j], s[i]) = 0 /\ j <= i) })

\* slices.SortStableFunc(curList, indexCmp)
SortStableFunc(s) ==
    [k \in 1 .. Len(s) |-> s[CHOOSE i \in 1 .. Len(s) : StableRank(s, i) = k]]

IsSorted(s) == \A i \in 1 .. Len(s) - 1 : s[i].time <= s[i + 1].time

Max(a, b) == IF a >= b THEN a ELSE b
Min(a, b) == IF a <= b THEN a ELSE b

\* the runtime's growth of a slice that append cannot extend in place
GrowCap(cap, needed) == Max(2 * cap, needed)

\* append(s, more...) on a slice value [list, cap]: in place when the
\* capacity allows, else into a new backing array
AppendSlice(s, more) ==
    LET n == Len(s.list) + Len(more) IN
    [list  |-> s.list \o more,
     cap   |-> IF n <= s.cap THEN s.cap ELSE GrowCap(s.cap, n),
     moved |-> n > s.cap]

\* ------------------------------------------------------------- the segments

\* Segment k of the path: its start time, the tracks of its init and its
\* fragments (moof boxes) in file order
SegStart(k) == 4 * k
SegTracks(k) == [id \in {1} |-> 4]
SegMoofs(k) ==
    << [offset |-> 3, trafs |-> << [track |-> 1, base |-> 0] >>],
       [offset |-> 6, trafs |-> << [track |-> 1, base |-> 6] >>] >>

\* dt := (offset64/timeScale)*time.Second + (offset64%timeScale)*time.Second/timeScale
DecodeTime(base, timeScale) ==
    (base \div timeScale) * Second + ((base % timeScale) * Second) \div timeScale

\* the entries one moof contributes: one per tfdt box met under it
RECURSIVE TrafEntries(_, _, _, _)
TrafEntries(start, tracks, moofOffset, trafs) ==
    IF trafs = << >> THEN << >>
    ELSE << Entry(start + DecodeTime(trafs[1].base, tracks[trafs[1].track]), moofOffset) >>
         \o TrafEntries(start, tracks, moofOffset, Tail(trafs))

RECURSIVE MoofEntries(_, _, _)
MoofEntries(start, tracks, moofs) ==
    IF moofs = << >> THEN << >>
    ELSE TrafEntries(start, tracks, moofs[1].offset, moofs[1].trafs)
         \o MoofEntries(start, tracks, Tail(moofs))

\* scanSegment of a segment that opens and parses: the sentinel, then the
\* fragments' entries
scanSegment(k) ==
    << Entry(SegStart(k), 0) >> \o MoofEntries(SegStart(k), SegTracks(k), SegMoofs(k))

\* ---------------------------------------------------------- sidecar files

MagicOK == << "S", "I", "D", "X" >>

\* a slot that keeps whole seconds only
MarshalSlotSeconds(t) == << 1, t \div Second, 0, 0 >>

\* entry.Time.MarshalBinary(), padded to the 16-byte slot: version byte,
\* seconds, sub-second part, pad
MarshalSlot(t) == << 1, t \div Second, t % Second, 0 >>

\* Time.UnmarshalBinary of a slot read back
UnmarshalSlot(b) == b[2] * Second + b[3]
SlotOK(b) == b[1] \in {1, 2}

NoFile == [exists |-> FALSE, magic |-> << >>, recs |-> << >>, tail |-> "none", old |-> FALSE]

RECURSIVE EncodeRecs(_)
EncodeRecs(idx) ==
    IF idx = << >> THEN << >>
    ELSE << [slot |-> MarshalSlot(idx[1].time), off |-> idx[1].offset] >>
         \o EncodeRecs(Tail(idx))

\* where a write of writeIndex fails: nowhere, at os.Create, at the header
\* (unchecked), at entry i's marshal, timestamp write or offset write (with
\* or without part of the bytes on disk), or at os.Rename
WriteFaults(idx) ==
    { [at |-> a, i |-> 0, part |-> FALSE] : a \in {"none", "create", "header", "rename"} }
    \cup { [at |-> a, i |-> i, part |-> p] :
             a \in {"marshal", "time", "off"}, i \in 1 .. Len(idx), p \in BOOLEAN }

\* the loop of writeIndex: the records that reached the temp file and
\* whether the loop left by break
writeIndexLoop(idx, fault) ==
    IF fault.at \in {"marshal", "time", "off"}
    THEN [recs |-> EncodeRecs(SubSeq(idx, 1, fault.i - 1)),
          tail |-> IF fault.at = "marshal" THEN "none"
                   ELSE IF fault.at = "time" THEN (IF fault.part THEN "time" ELSE "none")
                   ELSE "off",
          broke |-> TRUE]
    ELSE [recs |-> EncodeRecs(idx), tail |-> "none", broke |-> FALSE]

\* `b, err := entry.Time.MarshalBinary()` declares a new err in the loop
\* body: the function's err, tested after f.Close(), is still the nil that
\* os.Create returned
writeIndexErrAfterLoop(broke) == FALSE

\* writeIndex(segPath, idx) over the sidecar prev: the sidecar afterwards
\* and whether an error is returned
writeIndex(prev, idx, fault) ==
    LET loop == writeIndexLoop(idx, fault)
        tmp  == [exists |-> TRUE,
                 magic  |-> IF fault.at = "header" THEN << >> ELSE MagicOK,
                 recs   |-> loop.recs,
                 tail   |-> loop.tail,
                 old    |-> FALSE]
    IN  IF fault.at = "create" THEN [file |-> prev, err |-> TRUE]
        ELSE IF writeIndexErrAfterLoop(loop.broke) THEN [file |-> prev, err |-> TRUE]
        ELSE IF fault.at = "rename" THEN [file |-> prev, err |-> TRUE]
        ELSE [file |-> tmp, err |-> FALSE]

\* if b[0] != 'S' && b[1] != 'I' && b[2] != 'D' && b[3] != 'X' { stale }
MagicRejected(m) ==
    Len(m) # 4 \/ (m[1] # "S" /\ m[2] # "I" /\ m[3] # "D" /\ m[4] # "X")

RECURSIVE DecodeRecs(_)
DecodeRecs(recs) ==
    IF recs = << >> THEN << >>
    ELSE << Entry(UnmarshalSlot(recs[1].slot), recs[1].off) >> \o DecodeRecs(Tail(recs))

\* readIndexFile: the list and the error ("nil", "stale" or "other")
readIndexFile(f) ==
    IF ~f.exists THEN [lst |-> << >>, err |-> "other"]
    ELSE IF MagicRejected(f.magic) THEN [lst |-> << >>, err |-> "stale"]
    ELSE IF \E i \in 1 .. Len(f.recs) : ~SlotOK(f.recs[i].slot)
         THEN [lst |-> << >>, err |-> "other"]
    \* a short read of the 16-byte slot leaves err nil: return nil, err
    ELSE IF f.tail = "time" THEN [lst |-> << >>, err |-> "nil"]
    ELSE [lst |-> DecodeRecs(f.recs), err |-> "nil"]

\* readIndex with the age test the wrong way round
readIndexAgeInverted(f, segGone) ==
    IF segGone THEN [lst |-> << >>, err |-> "other"]
    ELSE IF ~f.exists THEN [lst |-> << >>, err |-> "other"]
    ELSE IF ~f.old THEN [lst |-> << >>, err |-> "stale"]
    ELSE readIndexFile(f)

\* readIndex(seg): stat of the segment, stat of the sidecar, age, then the file
readIndex(f, segGone) ==
    IF segGone THEN [lst |-> << >>, err |-> "other"]
    ELSE IF ~f.exists THEN [lst |-> << >>, err |-> "other"]
    ELSE IF f.old THEN [lst |-> << >>, err |-> "stale"]
    ELSE readIndexFile(f)

\* ------------------------------------------------------------ the lookups

\* index of the first entry after start, or Len + 1
RECURSIVE FirstAfter(_, _, _)
FirstAfter(entries, start, n) ==
    IF n > Len(entries) THEN n
    ELSE IF entries[n].time > start THEN n
    ELSE FirstAfter(entries, start, n + 1)

\* the loop of FindBestOffset over the entries it fetched
FindBestOffsetScan(entries, start) ==
    LET n == FirstAfter(entries, start, 1) IN
    IF n <= Len(entries) /\ n > 1 /\ entries[n].offset # 0
    THEN entries[n - 1].offset
    ELSE 0

\* the two loops of PruneIndex over the list it fetched: n0, the first entry
\* not before start, and n1, the next entry of offset 0 after n0
RECURSIVE PruneN0(_, _, _)
PruneN0(idx, start, n) ==
    IF n > Len(idx) THEN n
    ELSE IF ~(idx[n].time < start) THEN n
    ELSE PruneN0(idx, start, n + 1)

\* a second loop that stops at once: only idx[n0] is cut out
PruneN1Stuck(idx, n) == n

RECURSIVE PruneN1(_, _)
PruneN1(idx, n) ==
    IF n > Len(idx) THEN n
    ELSE IF idx[n].offset = 0 THEN n
    ELSE PruneN1(idx, n + 1)

\* an early return that does not look at the last entry's time
PruneReturnsEarlyNoTime(ok, idx, start) == ~ok \/ Len(idx) = 0

\* if !ok || len(idx) == 0 || idx[len(idx)-1].Time.Before(start) { return }
PruneReturnsEarly(ok, idx, start) ==
    ~ok \/ Len(idx) = 0 \/ idx[Len(idx)].time < start

\* idx = slices.Concat(idx[:n0], idx[n1:])
PruneConcat(idx, start) ==
    LET n0 == PruneN0(idx, start, 1)
        n1 == PruneN1(idx, n0 + 1)
    IN  SubSeq(idx, 1, n0 - 1) \o SubSeq(idx, n1, Len(idx))

\* make([]indexEntry, 0, min(4096, (len(idx)>>12)<<12))
ReIndexCap(len) == Min(4096, (len \div 4096) * 4096)

\* ------------------------------------------------------ the range writer

\* the muxed output of a request: total bytes, the byte at position i (from
\* 0) being i
Content(total) == [i \in 1 .. total |-> i - 1]

\* s[lo:hi] of a Go string or slice
Slice(s, lo, hi) == SubSeq(s, lo + 1, hi)

\* strings.IndexRune(s, c)
IndexRune(s, c) ==
    LET at == { i \in 1 .. Len(s) : s[i] = c }
    IN  IF at = {} THEN 0 - 1 ELSE (CHOOSE i \in at : \A j \in at : i <= j) - 1

DigitChars == << "0", "1", "2", "3", "4", "5", "6", "7", "8", "9" >>
DigitVal(c) == (CHOOSE d \in 1 .. 10 : DigitChars[d] = c) - 1
IsDigit(c) == \E d \in 1 .. 10 : DigitChars[d] = c

RECURSIVE DecVal(_)
DecVal(s) == IF s = << >> THEN 0 ELSE 10 * DecVal(SubSeq(s, 1, Len(s) - 1)) + DigitVal(s[Len(s)])

\* strconv.Atoi(s): an optional sign, then decimal digits only
Atoi(s) ==
    LET signed == s # << >> /\ s[1] \in {"+", "-"}
        digits == IF signed THEN Tail(s) ELSE s
    IN  IF digits = << >> \/ \E i \in 1 .. Len(digits) : ~IsDigit(digits[i])
        THEN [ok |-> FALSE, val |-> 0]
        ELSE [ok |-> TRUE,
              val |-> IF s[1] = "-" THEN 0 - DecVal(digits) ELSE DecVal(digits)]

\* strconv.Itoa(n), n >= 0, as a client writes a number
RECURSIVE Itoa(_)
Itoa(n) == IF n < 10 THEN << DigitChars[n + 1] >>
           ELSE Itoa(n \div 10) \o << DigitChars[(n % 10) + 1] >>

\* the fields of a writerWrapper as onGet makes it
NewWriter ==
    [length |-> 0, skipped |-> 0, sent |-> 0, offset |-> 0, offset2 |-> MaxInt,
     pass1 |-> TRUE, written |-> FALSE]

\* the fields of a writerWrapper as onHead makes it
NewHeadWriter ==
    [length |-> 0, skipped |-> 0, sent |-> 0, offset |-> 0, offset2 |-> 0,
     pass1 |-> TRUE, written |-> FALSE]

\* onGet's reading of the Range header into the writer
ParseRange(hdr) ==
    LET n1  == IndexRune(hdr, "=")
        n2  == IndexRune(hdr, "-")
        ww  == NewWriter
        lo  == Atoi(Slice(hdr, n1 + 1, n2))
        hi  == Atoi(Slice(hdr, n2 + 1, Len(hdr)))
    IN  IF n1 >= 0 /\ n2 > n1
        THEN IF ~lo.ok THEN [ww EXCEPT !.offset = 0, !.pass1 = FALSE]
             ELSE IF Len(Slice(hdr, n2 + 1, Len(hdr))) > 0
                  THEN IF ~hi.ok
                       THEN [ww EXCEPT !.offset = lo.val, !.offset2 = MaxInt, !.pass1 = FALSE]
                       ELSE [ww EXCEPT !.offset = lo.val, !.offset2 = hi.val]
                  ELSE [ww EXCEPT !.offset = lo.val]
        ELSE [ww EXCEPT !.pass1 = FALSE]

\* a first pass that counts calls of Write
AccumLengthCalls(length, n) == length + 1

\* w.length += n
AccumLength(length, n) == length + n

\* what p[:len(p)+1] gives: a panic when the muxer's buffer ends with p, else
\* the byte behind p in that buffer, the next byte of the output or another
SliceBeyond == {"panic", "next", "other"}

\* writerWrapper.Write(p): the writer afterwards, the bytes handed to
\* ctx.Writer and the error; `beyond` settles a slice one past len(p), next
\* being the byte of the output that follows p and other a byte that is not it
Write(w, p, beyond, next, other) ==
    LET n == Len(p) IN
    IF w.pass1
    THEN [w |-> [w EXCEPT !.length = AccumLength(w.length, n)], out |-> << >>, err |-> "nil"]
    ELSE IF w.skipped >= w.offset
    THEN LET clamp == w.sent + n + 1 > w.offset2
             bytesToWrite == IF clamp THEN w.offset2 + 1 - w.sent ELSE n
             q == IF bytesToWrite <= n THEN SubSeq(p, 1, bytesToWrite)
                  ELSE p \o << IF beyond = "next" THEN next ELSE other >>
             sent == w.sent + Len(q)
         IN  IF bytesToWrite < 0 \/ (bytesToWrite > n /\ beyond = "panic")
             THEN [w |-> [w EXCEPT !.written = TRUE], out |-> << >>, err |-> "panic"]
             ELSE [w |-> [w EXCEPT !.written = TRUE, !.sent = sent],
                   out |-> q,
                   err |-> IF sent >= w.offset2 THEN "EOF" ELSE "nil"]
    ELSE IF w.skipped + n <= w.offset
    THEN [w |-> [w EXCEPT !.skipped = w.skipped + n], out |-> << >>, err |-> "nil"]
    ELSE LET bytesToSkip == w.offset - w.skipped
             skipped == w.skipped + bytesToSkip
         IN  IF skipped > w.offset
             THEN [w |-> [w EXCEPT !.skipped = skipped], out |-> << >>, err |-> "ErrFatal"]
             ELSE [w |-> [w EXCEPT !.skipped = skipped, !.written = TRUE],
                   out |-> Slice(p, bytesToSkip, n),
                   err |-> "nil"]

\* ------------------------------------------------------------------ state

VARIABLES
    entries,    \* Index.entries[path]: ok (the key is present), list, cap
    running,    \* path is a key of Index.running
    wlock,      \* the rebuilder inside a write-locked section, or 0
    fatal,      \* the runtime stopped the program (concurrent map access)
    pc,         \* each IndexPath call's position
    seen,       \* each IndexPath call's local `running`
    segi,       \* each IndexPath call's place in `segments`
    lst,        \* each IndexPath call's `lst`
    errOld,     \* each IndexPath call's err == ErrIndexIsOld at appendIndex
    sidecar,    \* the sidecar file of each segment
    nUpd,       \* live appends so far
    goQueue,    \* goroutines started by `go Index.IndexPath` and not yet run
    look,       \* the FindBestOffset call
    prune,      \* the PruneIndex call
    reidx,      \* the onReIndex call
    get,        \* the HEAD and GET requests of one client and their writer
    codec,      \* a list written to a sidecar and read back
    mux,        \* one seekAndMux call over the candidate segments
    rw,         \* Index's RWMutex, the lookup of one request and the writers
    scan        \* one scanSegment call over a segment file

vars == << entries, running, wlock, fatal, pc, seen, segi, lst, errOld,
           sidecar, nUpd, goQueue, look, prune, reidx, get, codec, mux, rw, scan >>

rebVars == << pc, seen, segi, lst, errOld >>
callVars == << look, prune, reidx, get, codec, mux, rw, scan >>
\* the index, its callers and the disk
indexVars == << entries, running, wlock, fatal, rebVars, sidecar, nUpd, goQueue,
               look, prune, reidx >>

\* the times and offsets the recorder passes to Update
UpdTimes == {SegStart(1) + 2, SegStart(NumSegs) + 4}
UpdOffsets == {0, 5}
\* the start times asked of FindBestOffset and the cut times of PruneIndex
LookStarts == {SegStart(1) + 2, SegStart(NumSegs) + 1}
PruneCuts == {SegStart(1), SegStart(1) + 1, SegStart(NumSegs)}

\* a sidecar as writeIndex leaves it when nothing fails
FullSidecar(k) == writeIndex(NoFile, scanSegment(k), [at |-> "none", i |-> 0, part |-> FALSE]).file

\* the Range headers a client sends: none, bytes=a-b, bytes=a-, and ones the
\* parser cannot read
Bytes == << "b", "y", "t", "e", "s" >>
RangeHdr(a, b) == Bytes \o << "=" >> \o Itoa(a) \o << "-" >> \o Itoa(b)
OpenRangeHdr(a) == Bytes \o << "=" >> \o Itoa(a) \o << "-" >>
NoHdr == << >>
BadHdrs ==
    { Bytes,
      Bytes \o << "=", "x", "-", "1" >>,
      Bytes \o << "=", "1", "-", "x" >> }
Hdrs ==
    {NoHdr} \cup BadHdrs
    \cup { RangeHdr(a, b) : a, b \in 0 .. MaxTotal - 1 }
    \cup { OpenRangeHdr(a) : a \in 0 .. 1 }

\* a client that has sent nothing, and the length of the muxed output of the
\* path, start and duration it will ask for
NewClient(total) ==
    [pc |-> "idle", method |-> "none", hdr |-> NoHdr, total |-> total,
     ww |-> NewWriter, pos |-> 0, body |-> << >>, status |-> 0, headLen |-> 0 - 1]

\* a sidecar written before its segment was last modified
OldSidecar(k) == [FullSidecar(k) EXCEPT !.old = TRUE]

\* a whole sidecar whose first four bytes are m
WithMagic(k, m) == [FullSidecar(k) EXCEPT !.magic = m]

\* headers that are not the tag: one byte wrong, two wrong, all four wrong
BadMagics ==
    { << "X", "I", "D", "X" >>, << "S", "I", "D", "Y" >>,
      << "S", "A", "D", "Y" >>, << "F", "R", "E", "E" >> }

\* what can lie beside segment k when the program starts
DiskFiles(k) ==
    {NoFile, FullSidecar(k), OldSidecar(k)} \cup { WithMagic(k, m) : m \in BadMagics }

\* a list about to be written to a sidecar
NewCodec(idx) ==
    [pc |-> "idle", idx |-> idx, fault |-> "none", file |-> NoFile, err |-> FALSE,
     back |-> [lst |-> << >>, err |-> "nil"]]

\* the entry lists of up to MaxLen entries
CodecEntries == { Entry(t, o) : t \in 0 .. MaxTime, o \in {0, 5} }
CodecLists == UNION { [1 .. n -> CodecEntries] : n \in 0 .. MaxLen }

\* a seekAndMux call over segments[0] and n candidate segments after it
NewMux(n) ==
    [pc |-> "idle", n |-> n, i |-> 0, parts |-> << >>, segmentEnd |-> 0,
     broke |-> 0, flushed |-> FALSE, flushErr |-> FALSE, ret |-> "none"]

\* what segmentFMP4SeekAndMuxParts and segmentFMP4MuxParts return as the
\* elapsed time
Elapsed == {1, 2}

\* the calls that take Index.Lock()
Writers == {"Update", "merge", "prune", "reindex"}

\* the mutex with no reader and no writer, and no call started
NewLock == [readers |-> 0, look |-> "idle", wr |-> [w \in Writers |-> "idle"]]

\* a scanSegment call about to read a file with these tracks and fragments
NewScan(tracks, moofs) ==
    [pc |-> "idle", start |-> SegStart(1), tracks |-> tracks, moofs |-> moofs,
     out |-> << >>, err |-> FALSE]

\* the tracks of a segment's init and their time scales; the fragments a
\* file can hold: up to MaxMoofs, each with up to MaxTrafs track fragments,
\* of a track of the init or of none
FileTracks == [id \in {1, 2} |-> IF id = 1 THEN 4 ELSE 2]
FileTrafs == { [track |-> t, base |-> b] : t \in {1, 2, 3}, b \in {0, 4} }
FileTrafLists == UNION { [1 .. n -> FileTrafs] : n \in 1 .. MaxTrafs }
FileMoofLists ==
    UNION { { [i \in 1 .. n |-> [offset |-> 3 * i, trafs |-> f[i]]] :
                f \in [1 .. n -> FileTrafLists] } : n \in 0 .. MaxMoofs }

Init ==
    /\ entries = [ok |-> FALSE, list |-> << >>, cap |-> 0]
    /\ running = FALSE
    /\ wlock = 0
    /\ fatal = FALSE
    /\ pc = [r \in Rebuilders |-> "idle"]
    /\ seen = [r \in Rebuilders |-> FALSE]
    /\ segi = [r \in Rebuilders |-> 1]
    /\ lst = [r \in Rebuilders |-> << >>]
    /\ errOld = [r \in Rebuilders |-> FALSE]
    /\ sidecar \in [Segs -> {NoFile}]
    /\ nUpd = 0
    /\ goQueue = 0
    /\ look = [pc |-> "idle", ok |-> FALSE, view |-> << >>, start |-> 0,
               shared |-> FALSE, result |-> 0]
    /\ prune = [pc |-> "idle", ok |-> FALSE, view |-> << >>, cut |-> 0,
                shared |-> FALSE, out |-> << >>]
    /\ reidx = [pc |-> "idle", seen |-> FALSE, len |-> 0, status |-> 0]
    /\ get = NewClient(MaxTotal)
    /\ codec = NewCodec(<< >>)
    /\ mux = NewMux(MaxCand)
    /\ rw = NewLock
    /\ scan = NewScan(SegTracks(1), SegMoofs(1))

\* the snapshots other calls hold stop sharing the list's backing array when
\* the list moves to a new one
Unshared(c) == [c EXCEPT !.shared = FALSE]
KeepOrUnshare(c, moved) == IF moved THEN Unshared(c) ELSE c

\* ------------------------------------------------------------- IndexPath

\* a rebuilder inside a locked section that writes the running map
WritesRunning(r) ==
    wlock = r /\ ((pc[r] = "marking" /\ ~seen[r]) \/ pc[r] = "clearing")

\* `_, running := i.running[pathName]`, read before i.Lock(), by a call the
\* cleaner, a GET or IndexAll makes
ReadRunning(r) ==
    /\ ~fatal /\ pc[r] = "idle"
    /\ pc' = [pc EXCEPT ![r] = "lock"]
    /\ seen' = [seen EXCEPT ![r] = running]
    /\ UNCHANGED << entries, running, wlock, fatal, segi, lst, errOld, sidecar,
                    nUpd, goQueue, callVars >>

\* the same read while another call, inside the lock, writes the map: the
\* runtime may stop the program, "concurrent map read and map write"
ReadRunningRace(r) ==
    /\ ~fatal /\ pc[r] = "idle"
    /\ \E q \in Rebuilders : WritesRunning(q)
    /\ fatal' = TRUE
    /\ UNCHANGED << entries, running, wlock, rebVars, sidecar, nUpd, goQueue, callVars >>

\* the same read by the call onReIndex started with `go`
GoIndexPath(r) ==
    /\ ~fatal /\ pc[r] = "idle" /\ goQueue > 0
    /\ goQueue' = goQueue - 1
    /\ pc' = [pc EXCEPT ![r] = "lock"]
    /\ seen' = [seen EXCEPT ![r] = running]
    /\ UNCHANGED << entries, running, wlock, fatal, segi, lst, errOld, sidecar,
                    nUpd, callVars >>

\* i.Lock()
MarkLock(r) ==
    /\ ~fatal /\ pc[r] = "lock" /\ wlock = 0
    /\ wlock' = r
    /\ pc' = [pc EXCEPT ![r] = "marking"]
    /\ UNCHANGED << entries, running, fatal, seen, segi, lst, errOld, sidecar,
                    nUpd, goQueue, callVars >>

\* if running { i.Unlock(); return }
MarkDropped(r) ==
    /\ ~fatal /\ pc[r] = "marking" /\ seen[r]
    /\ wlock' = 0
    /\ pc' = [pc EXCEPT ![r] = "dropped"]
    /\ UNCHANGED << entries, running, fatal, seen, segi, lst, errOld, sidecar,
                    nUpd, goQueue, callVars >>

\* i.running[pathName] = struct{}{}; the placeholder list; i.Unlock()
Mark(r) ==
    /\ ~fatal /\ pc[r] = "marking" /\ ~seen[r]
    /\ running' = TRUE
    /\ entries' = IF entries.ok THEN entries
                  ELSE [ok |-> TRUE, list |-> << >>, cap |-> InitialCap]
    /\ wlock' = 0
    /\ pc' = [pc EXCEPT ![r] = "load"]
    /\ segi' = [segi EXCEPT ![r] = 1]
    /\ UNCHANGED << fatal, seen, lst, errOld, sidecar, nUpd, goQueue, callVars >>

\* a return at the end of the loop that skips the deferred function
AfterSegNoDefer(r) == IF segi[r] + 1 > NumSegs THEN "done" ELSE "load"

\* the next segment, or the end of the loop
NextSeg(r) == [segi EXCEPT ![r] = segi[r] + 1]
AfterSeg(r) == IF segi[r] + 1 > NumSegs THEN "unlock" ELSE "load"

\* lst, err := readIndex(seg); if err == nil { goto appendIndex }
LoadSidecar(r) ==
    /\ ~fatal /\ pc[r] = "load"
    /\ LET got == readIndex(sidecar[segi[r]], FALSE) IN
       /\ got.err = "nil"
       /\ lst' = [lst EXCEPT ![r] = got.lst]
       /\ errOld' = [errOld EXCEPT ![r] = FALSE]
    /\ pc' = [pc EXCEPT ![r] = "merge"]
    /\ UNCHANGED << entries, running, wlock, fatal, seen, segi, sidecar, nUpd,
                    goQueue, callVars >>

\* lst, err = scanSegment(seg) after a failed readIndex; err = ErrIndexIsOld
ScanOK(r) ==
    /\ ~fatal /\ pc[r] = "load"
    /\ readIndex(sidecar[segi[r]], FALSE).err # "nil"
    /\ lst' = [lst EXCEPT ![r] = scanSegment(segi[r])]
    /\ errOld' = [errOld EXCEPT ![r] = TRUE]
    /\ pc' = [pc EXCEPT ![r] = "merge"]
    /\ UNCHANGED << entries, running, wlock, fatal, seen, segi, sidecar, nUpd,
                    goQueue, callVars >>

\* a failed scan that ends the loop instead of going on to the next segment
ScanFailsReturn(r) ==
    /\ ~fatal /\ pc[r] = "load"
    /\ segi' = NextSeg(r)
    /\ pc' = [pc EXCEPT ![r] = "unlock"]
    /\ UNCHANGED << entries, running, wlock, fatal, seen, lst, errOld, sidecar,
                    nUpd, goQueue, callVars >>

\* the segment cannot be read or opened, or its init or a track id does not
\* resolve: readIndex and scanSegment both fail; continue
ScanFails(r) ==
    /\ ~fatal /\ pc[r] = "load"
    /\ segi' = NextSeg(r)
    /\ pc' = [pc EXCEPT ![r] = AfterSeg(r)]
    /\ UNCHANGED << entries, running, wlock, fatal, seen, lst, errOld, sidecar,
                    nUpd, goQueue, callVars >>

\* does the sort of list s write any of its first n elements
SortRewrites(s, n) ==
    SubSeq(SortStableFunc(s), 1, Min(n, Len(s))) # SubSeq(s, 1, Min(n, Len(s)))

\* appendIndex: i.Lock(); curList = append(curList, lst...); the sort begins
MergeLock(r) ==
    /\ ~fatal /\ pc[r] = "merge" /\ wlock = 0
    /\ LET app == AppendSlice(entries, lst[r]) IN
       /\ entries' = [ok |-> TRUE, list |-> app.list, cap |-> app.cap]
       /\ look' = KeepOrUnshare(look, app.moved)
       /\ prune' = KeepOrUnshare(prune, app.moved)
    /\ wlock' = r
    /\ pc' = [pc EXCEPT ![r] = "sorting"]
    /\ UNCHANGED << running, fatal, seen, segi, lst, errOld, sidecar, nUpd,
                    goQueue, reidx, get, codec, mux, rw, scan >>

\* what a call that fetched the list sees of it once the sort has run
ViewAfterSort(c, sorted) ==
    IF c.shared THEN [c EXCEPT !.view = SubSeq(sorted, 1, Len(c.view))] ELSE c

\* slices.SortStableFunc(curList, indexCmp); i.entries[pathName] = curList;
\* i.Unlock()
MergeDone(r) ==
    /\ ~fatal /\ pc[r] = "sorting"
    /\ LET sorted == SortStableFunc(entries.list) IN
       /\ entries' = [entries EXCEPT !.list = sorted]
       /\ look' = ViewAfterSort(look, sorted)
       /\ prune' = ViewAfterSort(prune, sorted)
    /\ wlock' = 0
    /\ IF errOld[r]
       THEN pc' = [pc EXCEPT ![r] = "persist"] /\ segi' = segi
       ELSE pc' = [pc EXCEPT ![r] = AfterSeg(r)] /\ segi' = NextSeg(r)
    /\ UNCHANGED << running, fatal, seen, lst, errOld, sidecar, nUpd, goQueue, reidx, get, codec, mux, rw, scan >>

\* if err == ErrIndexIsOld { err = writeIndex(seg.Fpath, lst) }; a failure
\* is logged
Persist(r) ==
    /\ ~fatal /\ pc[r] = "persist"
    /\ \E fault \in WriteFaults(lst[r]) :
         sidecar' = [sidecar EXCEPT
                       ![segi[r]] = writeIndex(sidecar[segi[r]], lst[r], fault).file]
    /\ segi' = NextSeg(r)
    /\ pc' = [pc EXCEPT ![r] = AfterSeg(r)]
    /\ UNCHANGED << entries, running, wlock, fatal, seen, lst, errOld, nUpd,
                    goQueue, callVars >>

\* the deferred function: i.Lock()
UnmarkLock(r) ==
    /\ ~fatal /\ pc[r] = "unlock" /\ wlock = 0
    /\ wlock' = r
    /\ pc' = [pc EXCEPT ![r] = "clearing"]
    /\ UNCHANGED << entries, running, fatal, seen, segi, lst, errOld, sidecar,
                    nUpd, goQueue, callVars >>

\* delete(i.running, pathName); i.Unlock()
Unmark(r) ==
    /\ ~fatal /\ pc[r] = "clearing"
    /\ running' = FALSE
    /\ wlock' = 0
    /\ pc' = [pc EXCEPT ![r] = "done"]
    /\ UNCHANGED << entries, fatal, seen, segi, lst, errOld, sidecar, nUpd,
                    goQueue, callVars >>

\* ---------------------------------------------------------------- Update

\* Update(pathName, segmentTime, offset): the append, under the lock
Update(t, o) ==
    /\ ~fatal /\ wlock = 0 /\ nUpd < MaxUpdates
    /\ LET e   == IF entries.ok THEN entries
                  ELSE [ok |-> TRUE, list |-> << >>, cap |-> InitialCap]
           app == AppendSlice(e, << Entry(t, o) >>)
       IN  /\ entries' = [ok |-> TRUE, list |-> app.list, cap |-> app.cap]
           /\ look' = KeepOrUnshare(look, app.moved)
           /\ prune' = KeepOrUnshare(prune, app.moved)
    /\ nUpd' = nUpd + 1
    /\ UNCHANGED << running, wlock, fatal, rebVars, sidecar, goQueue, reidx, get, codec, mux, rw, scan >>

\* -------------------------------------------------------- FindBestOffset

\* a call that fetched the list reads it while a merge, holding the lock,
\* sorts the same backing array and moves elements the call reads
Racing(c) ==
    /\ c.shared
    /\ \E r \in Rebuilders : pc[r] = "sorting"
    /\ SortRewrites(entries.list, Len(c.view))

\* i.RLock(); entries, ok := i.entries[pathName]; i.RUnlock()
FindFetch(start) ==
    /\ ~fatal /\ wlock = 0 /\ look.pc # "scan"
    /\ look' = [pc |-> "scan", ok |-> entries.ok, view |-> entries.list,
                start |-> start, shared |-> entries.ok, result |-> 0]
    /\ UNCHANGED << entries, running, wlock, fatal, rebVars, sidecar, nUpd,
                    goQueue, prune, reidx, get, codec, mux, rw, scan >>

\* the offsets a read of the array can return while the sort moves elements
OffsetsInFlux == {0} \cup { entries.list[i].offset : i \in 1 .. Len(entries.list) }

\* if !ok { return 0 }; the loop over entries, outside the lock
FindScan ==
    /\ ~fatal /\ look.pc = "scan"
    /\ \/ /\ ~Racing(look)
          /\ look' = [look EXCEPT
                        !.pc = "done",
                        !.result = IF look.ok THEN FindBestOffsetScan(look.view, look.start)
                                   ELSE 0]
       \/ /\ Racing(look)
          /\ \E o \in OffsetsInFlux : look' = [look EXCEPT !.pc = "done", !.result = o]
    /\ UNCHANGED << entries, running, wlock, fatal, rebVars, sidecar, nUpd,
                    goQueue, prune, reidx, get, codec, mux, rw, scan >>

\* ------------------------------------------------------------ PruneIndex

\* i.RLock(); idx, ok := i.entries[pathName]; i.RUnlock()
PruneFetch(cut) ==
    /\ ~fatal /\ wlock = 0 /\ prune.pc = "idle"
    /\ prune' = [pc |-> "compute", ok |-> entries.ok, view |-> entries.list,
                 cut |-> cut, shared |-> entries.ok, out |-> << >>]
    /\ UNCHANGED << entries, running, wlock, fatal, rebVars, sidecar, nUpd,
                    goQueue, look, reidx, get, codec, mux, rw, scan >>

\* the lists a call can read of its n elements while the sort moves them:
\* each element as it was or as the sort leaves it
RECURSIVE FluxViews(_, _, _)
FluxViews(old, new, n) ==
    IF n = 0 THEN { << >> }
    ELSE { Append(v, e) : v \in FluxViews(old, new, n - 1), e \in {old[n], new[n]} }

\* the early return, the two loops and slices.Concat, outside the lock; the
\* list Concat returns lives in an array of its own
PruneCompute ==
    /\ ~fatal /\ prune.pc = "compute"
    /\ \E v \in IF Racing(prune)
                THEN FluxViews(prune.view, SortStableFunc(entries.list), Len(prune.view))
                ELSE {prune.view} :
         IF PruneReturnsEarly(prune.ok, v, prune.cut)
         THEN prune' = [prune EXCEPT !.pc = "idle", !.view = v]
         ELSE prune' = [prune EXCEPT !.pc = "store", !.view = v, !.shared = FALSE,
                                     !.out = PruneConcat(v, prune.cut)]
    /\ UNCHANGED << entries, running, wlock, fatal, rebVars, sidecar, nUpd,
                    goQueue, look, reidx, get, codec, mux, rw, scan >>

\* i.Lock(); i.entries[pathName] = idx; i.Unlock()
PruneStore ==
    /\ ~fatal /\ wlock = 0 /\ prune.pc = "store"
    /\ entries' = [ok |-> TRUE, list |-> prune.out, cap |-> Len(prune.out)]
    /\ prune' = Unshared([prune EXCEPT !.pc = "idle"])
    /\ look' = Unshared(look)
    /\ UNCHANGED << running, wlock, fatal, rebVars, sidecar, nUpd, goQueue, reidx, get, codec, mux, rw, scan >>

\* ------------------------------------------------------------- onReIndex

\* Index.RLock(); idx := Index.entries[pathName];
\* _, running := Index.running[pathName]; Index.RUnlock()
ReIndexCheck ==
    /\ ~fatal /\ wlock = 0 /\ reidx.pc = "idle" /\ reidx.status = 0
    /\ reidx' = [reidx EXCEPT !.pc = "checked", !.seen = running,
                              !.len = Len(entries.list)]
    /\ UNCHANGED << entries, running, wlock, fatal, rebVars, sidecar, nUpd,
                    goQueue, look, prune, get, codec, mux, rw, scan >>

\* if running { return }
ReIndexNoop ==
    /\ ~fatal /\ reidx.pc = "checked" /\ reidx.seen
    /\ reidx' = [reidx EXCEPT !.pc = "idle", !.status = 200]
    /\ UNCHANGED << entries, running, wlock, fatal, rebVars, sidecar, nUpd,
                    goQueue, look, prune, get, codec, mux, rw, scan >>

\* Index.Lock(); Index.entries[pathName] = make(...); Index.Unlock()
ReIndexDiscard ==
    /\ ~fatal /\ wlock = 0 /\ reidx.pc = "checked" /\ ~reidx.seen
    /\ entries' = [ok |-> TRUE, list |-> << >>, cap |-> ReIndexCap(reidx.len)]
    /\ look' = Unshared(look)
    /\ prune' = Unshared(prune)
    /\ reidx' = [reidx EXCEPT !.pc = "conf"]
    /\ UNCHANGED << running, wlock, fatal, rebVars, sidecar, nUpd, goQueue, get, codec, mux, rw, scan >>

\* pathConf, err := p.safeFindPathConf(pathName); if err != nil { return };
\* go Index.IndexPath(pathConf, pathName); WriteHeader(http.StatusAccepted)
ReIndexSchedule ==
    /\ ~fatal /\ reidx.pc = "conf"
    /\ \/ /\ reidx' = [reidx EXCEPT !.pc = "idle", !.status = 200]
          /\ goQueue' = goQueue
       \/ /\ reidx' = [reidx EXCEPT !.pc = "idle", !.status = 202]
          /\ goQueue' = goQueue + 1
    /\ UNCHANGED << entries, running, wlock, fatal, rebVars, sidecar, nUpd,
                    look, prune, get, codec, mux, rw, scan >>

\* --------------------------------------------------------- onHead, onGet

\* onHead up to seekAndMux: the writer of a HEAD request
HeadStart ==
    /\ get.pc = "idle" /\ get.method = "none"
    /\ get' = [get EXCEPT !.pc = "pass1", !.method = "HEAD", !.ww = NewHeadWriter,
                          !.pos = 0]
    /\ UNCHANGED << indexVars, codec, mux, rw, scan >>

\* onGet up to seekAndMux: the writer set from the Range header
GetStart(hdr) ==
    /\ get.pc = "idle" /\ get.method # "GET"
    /\ LET ww == ParseRange(hdr) IN
       get' = [get EXCEPT !.pc = IF ww.pass1 THEN "pass1" ELSE "pass2",
                          !.method = "GET", !.hdr = hdr, !.ww = ww, !.pos = 0]
    /\ UNCHANGED << indexVars, codec, mux, rw, scan >>

\* the status a response gets when its first bytes are written
StatusOnWrite(status, out) == IF status = 0 /\ out # << >> THEN 200 ELSE status

\* the muxer, inside seekAndMux, hands its next n bytes to Write; it goes on
\* after a nil error and returns any other error
MuxWrite(n, beyond) ==
    /\ get.pc \in {"pass1", "pass2"} /\ get.pos + n <= get.total
    /\ LET p == Slice(Content(get.total), get.pos, get.pos + n)
           r == Write(get.ww, p, beyond, get.pos + n, get.total)
       IN  get' = [get EXCEPT
                     !.ww = r.w,
                     !.body = get.body \o r.out,
                     !.status = StatusOnWrite(get.status, r.out),
                     !.pos = get.pos + n,
                     !.pc = IF r.err = "nil" THEN get.pc
                            ELSE IF r.err = "EOF" THEN "fin"
                            ELSE IF r.err = "panic" THEN "panicked"
                            ELSE "aborted"]
    /\ UNCHANGED << indexVars, codec, mux, rw, scan >>

\* onHead after seekAndMux returned nil: Content-Length is ww.length
HeadEnd ==
    /\ get.pc = "pass1" /\ get.method = "HEAD" /\ get.pos = get.total
    /\ get' = [get EXCEPT !.pc = "idle", !.headLen = get.ww.length, !.status = 200]
    /\ UNCHANGED << indexVars, codec, mux, rw, scan >>

\* onGet after pass 1: the end offset, 206 and the headers, then pass 2
Pass1End ==
    /\ get.pc = "pass1" /\ get.method = "GET" /\ get.pos = get.total
    /\ get' = [get EXCEPT
                 !.pc = "pass2",
                 !.pos = 0,
                 !.status = 206,
                 !.ww = [get.ww EXCEPT
                           !.offset2 = IF get.ww.offset2 = MaxInt
                                       THEN get.ww.length - 1 ELSE get.ww.offset2,
                           !.pass1 = FALSE,
                           !.written = TRUE]]
    /\ UNCHANGED << indexVars, codec, mux, rw, scan >>

\* pass 2 ran to the end of the output: seekAndMux returns nil
Pass2End ==
    /\ get.pc = "pass2" /\ get.pos = get.total
    /\ get' = [get EXCEPT !.pc = "fin"]
    /\ UNCHANGED << indexVars, codec, mux, rw, scan >>

\* if _, ok := Index.entries[pathName]; !ok { go Index.IndexPath(...) }
GetFinish ==
    /\ get.pc = "fin"
    /\ get' = [get EXCEPT !.pc = "done",
                          !.status = IF get.status = 0 THEN 200 ELSE get.status]
    /\ goQueue' = IF entries.ok THEN goQueue ELSE goQueue + 1
    /\ UNCHANGED << entries, running, wlock, fatal, rebVars, sidecar, nUpd,
                    look, prune, reidx, codec, mux, rw, scan >>

\* ------------------------------------------------------ writeIndex, readIndex

\* writeIndex(seg.Fpath, idx) beside a segment with no sidecar
CodecWrite(fault) ==
    /\ codec.pc = "idle"
    /\ LET w == writeIndex(NoFile, codec.idx, fault) IN
       codec' = [codec EXCEPT !.pc = "written", !.fault = fault.at,
                              !.file = w.file, !.err = w.err]
    /\ UNCHANGED << indexVars, get, mux, rw, scan >>

\* readIndex(seg) of the segment, unmodified since
CodecRead ==
    /\ codec.pc = "written"
    /\ codec' = [codec EXCEPT !.pc = "read", !.back = readIndex(codec.file, FALSE)]
    /\ UNCHANGED << indexVars, get, mux, rw, scan >>

\* ----------------------------------------------------------------- seekAndMux

\* the call returns err
MuxReturn(err) == [mux EXCEPT !.pc = "done", !.ret = err]

\* segments[0]: open, read init, writeInit, seek, mux its parts
SeekFirst(opened, elapsed, muxErr) ==
    /\ mux.pc = "idle"
    /\ mux' = IF ~opened THEN MuxReturn("err")
              ELSE IF muxErr
                   THEN [MuxReturn("err") EXCEPT !.parts = Append(mux.parts, 0)]
              ELSE [mux EXCEPT !.pc = IF mux.n = 0 THEN "flush" ELSE "loop",
                               !.i = 1,
                               !.parts = Append(mux.parts, 0),
                               !.segmentEnd = elapsed]
    /\ UNCHANGED << indexVars, get, codec, rw, scan >>

\* a candidate found not concatenable is skipped and the loop goes on
NextCandContinue(opened, concat, elapsed, muxErr) ==
    /\ mux.pc = "loop"
    /\ mux' = IF ~opened THEN MuxReturn("err")
              ELSE IF ~concat
                   THEN [mux EXCEPT !.broke = IF mux.broke = 0 THEN mux.i ELSE mux.broke,
                                    !.i = mux.i + 1,
                                    !.pc = IF mux.i = mux.n THEN "flush" ELSE "loop"]
              ELSE IF muxErr
                   THEN [MuxReturn("err") EXCEPT !.parts = Append(mux.parts, mux.i)]
              ELSE [mux EXCEPT !.pc = IF mux.i = mux.n THEN "flush" ELSE "loop",
                               !.i = mux.i + 1,
                               !.parts = Append(mux.parts, mux.i),
                               !.segmentEnd = elapsed]
    /\ UNCHANGED << indexVars, get, codec, rw, scan >>

\* one turn of `for _, seg := range segments[1:]`: open, read init, break
\* unless segmentFMP4CanBeConcatenated, mux its parts
NextCand(opened, concat, elapsed, muxErr) ==
    /\ mux.pc = "loop"
    /\ mux' = IF ~opened THEN MuxReturn("err")
              ELSE IF ~concat THEN [mux EXCEPT !.pc = "flush", !.broke = mux.i]
              ELSE IF muxErr
                   THEN [MuxReturn("err") EXCEPT !.parts = Append(mux.parts, mux.i)]
              ELSE [mux EXCEPT !.pc = IF mux.i = mux.n THEN "flush" ELSE "loop",
                               !.i = mux.i + 1,
                               !.parts = Append(mux.parts, mux.i),
                               !.segmentEnd = elapsed]
    /\ UNCHANGED << indexVars, get, codec, rw, scan >>

\* err = m.flush(); return err, or nil
Flush(err) ==
    /\ mux.pc = "flush"
    /\ mux' = [MuxReturn(IF err THEN "err" ELSE "nil") EXCEPT
                 !.flushed = TRUE, !.flushErr = err]
    /\ UNCHANGED << indexVars, get, codec, rw, scan >>

\* -------------------------------------------------------------- Index.RWMutex

\* a writer has announced itself or holds the lock: RLock calls wait
WriterPending == \E w \in Writers : rw.wr[w] \in {"pending", "held"}

\* Index.RLock() in seekAndMux
OuterRLock ==
    /\ rw.look = "idle"
    /\ rw' = IF WriterPending THEN [rw EXCEPT !.look = "outerWait"]
             ELSE [rw EXCEPT !.look = "outer", !.readers = rw.readers + 1]
    /\ UNCHANGED << indexVars, get, codec, mux, scan >>

\* i.RLock() in FindBestOffset, called with seekAndMux's read lock held
InnerRLock ==
    /\ rw.look = "outer"
    /\ rw' = IF WriterPending THEN [rw EXCEPT !.look = "innerWait"]
             ELSE [rw EXCEPT !.look = "inner", !.readers = rw.readers + 1]
    /\ UNCHANGED << indexVars, get, codec, mux, scan >>

\* i.RUnlock() in FindBestOffset
InnerRUnlock ==
    /\ rw.look = "inner"
    /\ rw' = [rw EXCEPT !.look = "scan", !.readers = rw.readers - 1]
    /\ UNCHANGED << indexVars, get, codec, mux, scan >>

\* Index.RUnlock() in seekAndMux, after FindBestOffset returned
OuterRUnlock ==
    /\ rw.look = "scan"
    /\ rw' = [rw EXCEPT !.look = "done", !.readers = rw.readers - 1]
    /\ UNCHANGED << indexVars, get, codec, mux, scan >>

\* i.Lock() is called: the writer queues behind the other writers
LockCall(w) ==
    /\ rw.wr[w] = "idle"
    /\ rw' = [rw EXCEPT !.wr[w] = "queued"]
    /\ UNCHANGED << indexVars, get, codec, mux, scan >>

\* the writer is the next one: from now on RLock calls wait for it
LockAnnounce(w) ==
    /\ rw.wr[w] = "queued" /\ ~WriterPending
    /\ rw' = [rw EXCEPT !.wr[w] = "pending"]
    /\ UNCHANGED << indexVars, get, codec, mux, scan >>

\* the readers that held the lock have left: i.Lock() returns
LockAcquire(w) ==
    /\ rw.wr[w] = "pending" /\ rw.readers = 0
    /\ rw' = [rw EXCEPT !.wr[w] = "held"]
    /\ UNCHANGED << indexVars, get, codec, mux, scan >>

\* i.Unlock(): the RLock call that waited holds the lock
Unlock(w) ==
    /\ rw.wr[w] = "held"
    /\ rw' = [rw EXCEPT !.wr[w] = "done",
                        !.look = IF rw.look = "outerWait" THEN "outer"
                                 ELSE IF rw.look = "innerWait" THEN "inner"
                                 ELSE rw.look,
                        !.readers = IF rw.look \in {"outerWait", "innerWait"}
                                    THEN rw.readers + 1 ELSE rw.readers]
    /\ UNCHANGED << indexVars, get, codec, mux, scan >>

\* ---------------------------------------------------------------- scanSegment

\* findInitTrack(init.Tracks, int(tfhd.TrackID)) == nil for some tfhd
InvalidTrackID(tracks, moofs) ==
    \E i \in 1 .. Len(moofs) : \E j \in 1 .. Len(moofs[i].trafs) :
        moofs[i].trafs[j].track \notin DOMAIN tracks

\* scanSegment(seg) of a file that opens and whose init reads: the sentinel,
\* then what the handler appends box by box, or the error of the handler
ScanFile ==
    /\ scan.pc = "idle"
    /\ scan' = IF InvalidTrackID(scan.tracks, scan.moofs)
               THEN [scan EXCEPT !.pc = "done", !.err = TRUE]
               ELSE [scan EXCEPT
                       !.pc = "done",
                       !.out = << Entry(scan.start, 0) >>
                                 \o MoofEntries(scan.start, scan.tracks, scan.moofs)]
    /\ UNCHANGED << indexVars, get, codec, mux, rw >>

\* ------------------------------------------------------------------- Spec

\* the disk when the program starts: a segment has no sidecar, or the one an
\* earlier run wrote
InitDisk ==
    /\ Init!1 /\ Init!2 /\ Init!3 /\ Init!4 /\ Init!5 /\ Init!6 /\ Init!7
    /\ Init!8 /\ Init!9
    /\ sidecar \in [Segs -> {NoFile}] \cup { [k \in Segs |-> FullSidecar(k)] }
    /\ Init!11 /\ Init!12 /\ Init!13 /\ Init!14 /\ Init!15 /\ Init!16
    /\ Init!17
    /\ Init!18
    /\ Init!19
    /\ Init!20

\* one call of IndexPath with no other call beside it
IndexPathAlone(r) ==
    \/ ReadRunning(r) \/ MarkLock(r) \/ Mark(r)
    \/ LoadSidecar(r) \/ ScanOK(r) \/ ScanFails(r)
    \/ MergeLock(r) \/ MergeDone(r) \/ Persist(r)
    \/ UnmarkLock(r) \/ Unmark(r)

\* a call of IndexPath among others
IndexPathStep(r) ==
    \/ IndexPathAlone(r) \/ ReadRunningRace(r) \/ MarkDropped(r)

\* concurrent rebuilds and live appends
Next ==
    \/ \E r \in Rebuilders : IndexPathStep(r)
    \/ \E t \in UpdTimes, o \in UpdOffsets : Update(t, o)

Spec == Init /\ [][Next]_vars

\* concurrent rebuilds alone
NextRebuild == \E r \in Rebuilders : IndexPathStep(r)

\* every goroutine that can take a step is scheduled; a writer waiting for
\* the mutex gets it
FairSpec ==
    /\ Init /\ [][NextRebuild]_vars
    /\ \A r \in Rebuilders : WF_vars(IndexPathStep(r))

\* lookups beside a rebuild and live appends
NextLookup ==
    \/ IndexPathAlone(1)
    \/ \E t \in UpdTimes, o \in UpdOffsets : Update(t, o)
    \/ \E start \in LookStarts : FindFetch(start)
    \/ FindScan

LookupSpec == InitDisk /\ [][NextLookup]_vars

\* the cleaner's prune beside a rebuild and live appends
NextPrune ==
    \/ IndexPathAlone(1)
    \/ \E t \in UpdTimes, o \in UpdOffsets : Update(t, o)
    \/ \E cut \in PruneCuts : PruneFetch(cut)
    \/ PruneCompute
    \/ PruneStore

PruneSpec == InitDisk /\ [][NextPrune]_vars

\* the admin's re-index beside a rebuild
NextReIndex ==
    \/ IndexPathAlone(1)
    \/ GoIndexPath(1)
    \/ ReIndexCheck
    \/ ReIndexNoop
    \/ ReIndexDiscard
    \/ ReIndexSchedule

ReIndexSpec == InitDisk /\ [][NextReIndex]_vars

\* any files beside the segments when the program starts
InitAnyDisk ==
    /\ Init!1 /\ Init!2 /\ Init!3 /\ Init!4 /\ Init!5 /\ Init!6 /\ Init!7
    /\ Init!8 /\ Init!9
    /\ sidecar \in { f \in [Segs -> UNION { DiskFiles(k) : k \in Segs }] :
                       \A k \in Segs : f[k] \in DiskFiles(k) }
    /\ Init!11 /\ Init!12 /\ Init!13 /\ Init!14 /\ Init!15 /\ Init!16
    /\ Init!17
    /\ Init!18
    /\ Init!19
    /\ Init!20

\* a rebuild of the path, and a second one after the first has returned
NextAgain ==
    \/ IndexPathAlone(1)
    \/ (pc[1] = "done" /\ IndexPathAlone(2))

AgainSpec == InitAnyDisk /\ [][NextAgain]_vars

\* any list written to a sidecar and read back
InitCodec ==
    /\ Init!1 /\ Init!2 /\ Init!3 /\ Init!4 /\ Init!5 /\ Init!6 /\ Init!7
    /\ Init!8 /\ Init!9 /\ Init!10 /\ Init!11 /\ Init!12 /\ Init!13 /\ Init!14
    /\ Init!15 /\ Init!16
    /\ codec \in { NewCodec(idx) : idx \in CodecLists }
    /\ Init!18
    /\ Init!19
    /\ Init!20

NextCodec ==
    \/ \E fault \in WriteFaults(codec.idx) : CodecWrite(fault)
    \/ CodecRead

CodecSpec == InitCodec /\ [][NextCodec]_vars

\* one seekAndMux call over up to MaxCand candidate segments
InitMux ==
    /\ Init!1 /\ Init!2 /\ Init!3 /\ Init!4 /\ Init!5 /\ Init!6 /\ Init!7
    /\ Init!8 /\ Init!9 /\ Init!10 /\ Init!11 /\ Init!12 /\ Init!13 /\ Init!14
    /\ Init!15 /\ Init!16 /\ Init!17
    /\ mux \in { NewMux(n) : n \in 0 .. MaxCand }
    /\ Init!19
    /\ Init!20

NextMux ==
    \/ \E opened, muxErr \in BOOLEAN, elapsed \in Elapsed :
         SeekFirst(opened, elapsed, muxErr)
    \/ \E opened, concat, muxErr \in BOOLEAN, elapsed \in Elapsed :
         NextCand(opened, concat, elapsed, muxErr)
    \/ \E err \in BOOLEAN : Flush(err)

MuxSpec == InitMux /\ [][NextMux]_vars

\* the seek-hint lookup of a playback request beside the index's writers;
\* every call that can take a step takes one in the end
NextLock ==
    \/ OuterRLock
    \/ InnerRLock
    \/ InnerRUnlock
    \/ OuterRUnlock
    \/ \E w \in Writers : LockCall(w)
    \/ \E w \in Writers : LockAnnounce(w)
    \/ \E w \in Writers : LockAcquire(w)
    \/ \E w \in Writers : Unlock(w)

LockSpec == Init /\ [][NextLock]_vars /\ WF_vars(NextLock)

\* lookups in any list of up to MaxLen entries, or with no list for the path
InitFind ==
    /\ entries \in {[ok |-> FALSE, list |-> << >>, cap |-> 0]}
                   \cup { [ok |-> TRUE, list |-> l, cap |-> InitialCap] : l \in CodecLists }
    /\ Init!2 /\ Init!3 /\ Init!4 /\ Init!5 /\ Init!6 /\ Init!7
    /\ Init!8 /\ Init!9 /\ Init!10 /\ Init!11 /\ Init!12 /\ Init!13 /\ Init!14
    /\ Init!15 /\ Init!16 /\ Init!17 /\ Init!18 /\ Init!19 /\ Init!20

NextFind ==
    \/ \E start \in 0 .. MaxTime : FindFetch(start)
    \/ FindScan

FindSpec == InitFind /\ [][NextFind]_vars

\* one rebuild of the path, with nothing beside it
NextOne == IndexPathAlone(1)

OneSpec == InitDisk /\ [][NextOne]_vars

\* scans of any file of up to MaxMoofs fragments
InitScan ==
    /\ Init!1 /\ Init!2 /\ Init!3 /\ Init!4 /\ Init!5 /\ Init!6 /\ Init!7
    /\ Init!8 /\ Init!9 /\ Init!10 /\ Init!11 /\ Init!12 /\ Init!13 /\ Init!14
    /\ Init!15 /\ Init!16 /\ Init!17 /\ Init!18 /\ Init!19
    /\ scan \in { NewScan(FileTracks, moofs) : moofs \in FileMoofLists }

NextScan == ScanFile

ScanSpec == InitScan /\ [][NextScan]_vars

\* a client's HEAD and GET of one path, start and duration
NextGet ==
    \/ HeadStart
    \/ \E hdr \in Hdrs : GetStart(hdr)
    \/ \E n \in 1 .. MaxTotal, beyond \in SliceBeyond : MuxWrite(n, beyond)
    \/ HeadEnd
    \/ Pass1End
    \/ Pass2End
    \/ GetFinish

\* the muxed output the client asks for has any length up to MaxTotal
InitGet ==
    /\ Init!1 /\ Init!2 /\ Init!3 /\ Init!4 /\ Init!5 /\ Init!6 /\ Init!7
    /\ Init!8 /\ Init!9 /\ Init!10 /\ Init!11 /\ Init!12 /\ Init!13 /\ Init!14
    /\ Init!15
    /\ get \in { NewClient(total) : total \in 1 .. MaxTotal }
    /\ Init!17
    /\ Init!18
    /\ Init!19
    /\ Init!20

GetSpec == InitGet /\ [][NextGet]_vars

\* ------------------------------------------------------------ properties

\* a call of IndexPath that marked the path running and has not cleared it
InProgress(r) == pc[r] \in {"load", "merge", "sorting", "persist", "unlock", "clearing"}

\* C1: single-flight rebuild.  At most one call of IndexPath is past the
\* running check for the path, loading, scanning or merging its segments, at
\* any time; the path is never running on behalf of two calls.
C1_SingleFlight == Cardinality({ r \in Rebuilders : InProgress(r) }) <= 1

\* C2: sorted invariant.  Whenever no merge holds the lock, after any
\* interleaving of rebuild merges and live appends, the path's list is
\* non-decreasing by time.
C2_SortedInvariant == wlock = 0 => IsSorted(entries.list)

\* every start time a lookup can ask for
AllStarts == 0 .. SegStart(NumSegs) + 2 * SegStart(1)

\* res is 0, or the offset of an entry at or before start with no entry of a
\* greater offset between that entry's time and start
SeekHintSound(list, start, res) ==
    \/ res = 0
    \/ \E k \in 1 .. Len(list) :
         /\ list[k].offset = res
         /\ list[k].time <= start
         /\ \A j \in 1 .. Len(list) :
              (list[j].time > list[k].time /\ list[j].time <= start)
                  => list[j].offset <= res

\* C3: seek-hint soundness.  In every reachable state of the index and for
\* every start, FindBestOffset returns 0 or the offset of an entry whose time
\* is <= start, and no entry with a time in (that entry's time, start] has a
\* greater offset.
C3_SeekHintSound ==
    wlock = 0 =>
        \A start \in AllStarts :
            SeekHintSound(entries.list, start, FindBestOffsetScan(entries.list, start))

\* the same on the states whose list is sorted
SoundWhenSorted ==
    (wlock = 0 /\ IsSorted(entries.list)) =>
        \A start \in AllStarts :
            SeekHintSound(entries.list, start, FindBestOffsetScan(entries.list, start))

\* C8: the running flag is always cleared.  Every call that marked the path
\* running reaches the deferred delete, whatever fails on its segments (or
\* the runtime has stopped the program), and the path is never left marked
\* running with no call in progress, so a call made after the earlier ones
\* have finished is not dropped.
C8_RunningCleared ==
    /\ \A r \in Rebuilders : InProgress(r) ~> (pc[r] = "done" \/ fatal)
    /\ [](running => \E r \in Rebuilders : InProgress(r))

\* C8 witness: a call has marked the path, met a failing segment and a
\* failing sidecar write, and cleared the flag; a later call is in progress
C8_Witness ==
    /\ pc[1] = "done" /\ ~seen[1]
    /\ pc[2] = "load" /\ ~seen[2]
    /\ \E k \in Segs : sidecar[k].exists /\ sidecar[k].tail # "none"

\* index of the sentinel entry i of s belongs to: the nearest entry of offset
\* 0 at or before i, or 0
SentinelOf(s, i) ==
    LET before == { j \in 1 .. i : s[j].offset = 0 }
    IN  IF before = {} THEN 0 ELSE CHOOSE j \in before : \A k \in before : k <= j

\* every segment's entries are preceded by that segment's sentinel
Anchored(s) == \A i \in 1 .. Len(s) : SentinelOf(s, i) # 0

\* out is s without the entries a .. b - 1, and no entry left outside that
\* block has its sentinel inside it
CutKeepsSentinels(s, out, a, b) ==
    /\ out = SubSeq(s, 1, a - 1) \o SubSeq(s, b, Len(s))
    /\ \A i \in (1 .. Len(s)) \ (a .. b - 1) :
         s[i].offset # 0 => SentinelOf(s, i) \notin a .. b - 1

\* C5: prune safety.  The list PruneIndex stores, computed from a list whose
\* entries are all preceded by their segment's sentinel, is that list without
\* one block of entries, and every non-sentinel entry that survives still has
\* its own sentinel before it: no sentinel is cut out while an entry of its
\* segment stays.
C5_PruneSafety ==
    (prune.pc = "store" /\ Anchored(prune.view)) =>
        /\ Anchored(prune.out)
        /\ \E a \in 1 .. Len(prune.view) + 1 : \E b \in a .. Len(prune.view) + 1 :
             CutKeepsSentinels(prune.view, prune.out, a, b)

\* C5 witness: a prune of a list of two segments cut one segment, sentinel
\* and all, and left the other segment's entries behind their sentinel
C5_Witness ==
    /\ prune.pc = "store" /\ Anchored(prune.view)
    /\ Cardinality({ i \in 1 .. Len(prune.view) : prune.view[i].offset = 0 })
         > Cardinality({ i \in 1 .. Len(prune.out) : prune.out[i].offset = 0 })
    /\ \E i \in 1 .. Len(prune.out) : prune.out[i].offset # 0

\* C7: a lookup beside a rebuild.  The list a lookup fetched is sorted by time
\* when the lookup reads it, and the lookup does not read it while a merge is
\* sorting the array its entries live in.
C7_LookupBesideRebuild ==
    look.pc = "scan" => (IsSorted(look.view) /\ ~Racing(look))

\* C9: admin re-index and a running rebuild.  The handler never discards the
\* path's list while a rebuild of the path is in progress.
C9_NoDiscardWhileRunning ==
    [][(reidx.pc = "checked" /\ reidx'.pc = "conf")
          => ~(\E r \in Rebuilders : InProgress(r))]_vars

\* a request that ended: served to the end, or cut off by a panic or an error
Ended == get.method = "GET" /\ get.pc \in {"done", "panicked", "aborted"}

\* C4: range fidelity.  For every valid Range bytes=a-b with a <= b < total,
\* the body a GET has delivered when it ends is exactly bytes a .. b of the
\* muxed output, however the muxer split its output into Write calls.
C4_RangeFidelity ==
    \A a, b \in 0 .. MaxTotal - 1 :
        (Ended /\ get.hdr = RangeHdr(a, b) /\ a <= b /\ b < get.total)
            => get.body = Slice(Content(get.total), a, b + 1)

\* C6: HEAD/GET consistency.  A HEAD delivers no byte, and the Content-Length
\* it reports equals the number of body bytes the unranged GET of the same
\* output delivers, however the muxer split the output in either request.
C6_HeadGetConsistency ==
    /\ get.method = "HEAD" => get.body = << >>
    /\ (get.method = "GET" /\ get.pc = "done" /\ get.hdr = NoHdr /\ get.headLen >= 0)
           => (get.headLen = Len(get.body) /\ get.body = Content(get.total))

\* C6 witness: after a HEAD of an output of several bytes, the unranged GET
\* of that output has been served to the end
C6_Witness ==
    /\ get.method = "GET" /\ get.pc = "done" /\ get.hdr = NoHdr
    /\ get.headLen >= 2 /\ Len(get.body) >= 2

\* C10: sidecar write is all-or-nothing.  A sidecar on disk with its header
\* is a whole one: read back it gives the full entry list writeIndex was
\* handed for its segment, never a part of it.
C10_SidecarAllOrNothing ==
    \A k \in Segs :
        (sidecar[k].exists /\ sidecar[k].magic = MagicOK)
            => readIndexFile(sidecar[k]) = [lst |-> scanSegment(k), err |-> "nil"]

\* a sidecar that is missing, older than its segment or malformed
SidecarUnusable(f) ==
    \/ ~f.exists
    \/ f.old
    \/ f.magic # MagicOK
    \/ f.tail # "none"
    \/ \E i \in 1 .. Len(f.recs) : ~SlotOK(f.recs[i].slot)

\* C11: sidecar reuse.  A rebuild scans a segment only when the segment's
\* sidecar is missing, older than the segment or malformed; a rebuild that
\* finds the whole sidecar an earlier rebuild persisted takes the segment's
\* entries from it without scanning, and a rebuild writes a sidecar only
\* after it scanned.
C11_SidecarReuse ==
    /\ [][\A r \in Rebuilders :
            /\ (pc[r] = "load" /\ pc'[r] = "merge" /\ errOld'[r])
                   => SidecarUnusable(sidecar[segi[r]])
            /\ (pc[r] = "load" /\ pc'[r] = "merge"
                  /\ sidecar[segi[r]] = FullSidecar(segi[r]))
                   => (~errOld'[r] /\ lst'[r] = scanSegment(segi[r]))
            /\ (pc'[r] = "persist" => errOld[r])]_vars
    /\ [][\A k \in Segs :
            (sidecar'[k] # sidecar[k])
                => \E r \in Rebuilders : pc[r] = "persist" /\ segi[r] = k /\ errOld[r]]_vars

\* C11 witness: the first rebuild scanned the last segment and persisted its
\* sidecar whole; the second rebuild has loaded that segment's entries from
\* the sidecar
C11_Witness ==
    /\ pc[1] = "done" /\ errOld[1] /\ lst[1] = scanSegment(NumSegs)
    /\ sidecar[NumSegs] = FullSidecar(NumSegs)
    /\ pc[2] = "merge" /\ segi[2] = NumSegs /\ ~errOld[2]
    /\ lst[2] = scanSegment(NumSegs)

\* C12: sidecar round-trip.  For every non-empty list sorted by time, the
\* sidecar writeIndex produces when no write fails reads back, not older than
\* its segment, as the same entries in the same order, times and offsets
\* equal, with no error.
C12_RoundTrip ==
    (codec.pc = "read" /\ codec.fault = "none"
       /\ codec.idx # << >> /\ IsSorted(codec.idx))
        => (~codec.err /\ codec.back = [lst |-> codec.idx, err |-> "nil"])

\* C12 witness: a sorted list of several entries, with times that are not
\* whole seconds and offsets that are not 0, has been written and read back
C12_Witness ==
    /\ codec.pc = "read" /\ codec.fault = "none"
    /\ Len(codec.idx) = MaxLen /\ IsSorted(codec.idx)
    /\ \E i \in 1 .. Len(codec.idx) :
         codec.idx[i].time % Second # 0 /\ codec.idx[i].offset # 0
    /\ codec.idx[1].time < codec.idx[MaxLen].time

\* C13: seekAndMux stops at the first candidate segment that is not
\* concatenable.  Once a candidate is found not concatenable or not
\* contiguous, neither it nor any later candidate is muxed, the muxer is
\* still flushed, and the call returns what the flush returns: success,
\* unless the flush itself fails.
C13_StopAtGap ==
    mux.broke # 0 =>
        /\ \A j \in 1 .. Len(mux.parts) : mux.parts[j] < mux.broke
        /\ mux.pc \in {"flush", "done"}
        /\ mux.pc = "done" =>
             (mux.flushed /\ mux.ret = IF mux.flushErr THEN "err" ELSE "nil")

\* C13 witness: the first candidate was not concatenable, later candidates
\* exist, only segments[0] was muxed, the muxer was flushed and nil returned
C13_Witness ==
    /\ mux.pc = "done" /\ mux.broke = 1 /\ mux.n = MaxCand
    /\ mux.parts = << 0 >> /\ mux.flushed /\ mux.ret = "nil"

\* C13 as stated: after a candidate was found not concatenable the call
\* always returns success
C13_AlwaysSuccess ==
    (mux.broke # 0 /\ mux.pc = "done") =>
        /\ \A j \in 1 .. Len(mux.parts) : mux.parts[j] < mux.broke
        /\ mux.flushed /\ mux.ret = "nil"

\* C14: malformed Range.  A GET whose Range header has no '=' or '-', a
\* start that is not a number, or an end that is not a number after a
\* numeric start, ends served, with every byte of the muxed output from
\* byte 0 as its body: never an error, never a truncated body.
C14_MalformedRangeFull ==
    \A hdr \in BadHdrs :
        (Ended /\ get.hdr = hdr)
            => (get.pc = "done" /\ get.body = Content(get.total))

\* C15: magic tag.  readIndexFile gives the stale error and no entries for
\* every sidecar whose first four bytes are not exactly 'S','I','D','X',
\* also when only one of the four differs, and the rebuild that finds such
\* a sidecar scans the segment instead of loading it.
C15_MagicExact ==
    /\ \A k \in Segs :
         (sidecar[k].exists /\ sidecar[k].magic # MagicOK)
             => readIndexFile(sidecar[k]) = [lst |-> << >>, err |-> "stale"]
    /\ \A r \in Rebuilders :
         (pc[r] = "merge" /\ ~errOld[r]) => sidecar[segi[r]].magic = MagicOK

\* C16: the seek-hint lookup cannot deadlock with the index's writers.
\* In every interleaving of the lookup, which takes the read lock in
\* seekAndMux and again in FindBestOffset, with Update, merge, prune and
\* re-index asking for the write lock, the lookup and every writer complete.
C16_LookupCompletes ==
    <>(rw.look = "done" /\ \A w \in Writers : rw.wr[w] = "done")

\* how many times e is in the list s
Count(s, e) == Cardinality({ i \in 1 .. Len(s) : s[i] = e })

\* e lies in the range the pending prune removes: not before the cut, and
\* before the first entry the prune keeps behind it
InCutRange(e) ==
    LET n0 == PruneN0(prune.view, prune.cut, 1)
        n1 == PruneN1(prune.view, n0 + 1)
    IN  /\ ~(e.time < prune.cut)
        /\ n1 <= Len(prune.view) => e.time < prune.view[n1].time

\* C17: PruneIndex loses no concurrent mutation.  When the prune stores its
\* list, every entry that Update or a merge added to the path's list since
\* the prune fetched it is in the stored list, unless it lies in the range
\* the prune removes.
C17_PruneKeepsAdded ==
    [][(prune.pc = "store" /\ prune'.pc = "idle") =>
          \A i \in 1 .. Len(entries.list) :
              LET e == entries.list[i] IN
              (Count(entries.list, e) > Count(prune.view, e) /\ ~InCutRange(e))
                  => Count(entries'.list, e)
                       >= Count(prune.out, e) + Count(entries.list, e) - Count(prune.view, e)]_vars

\* the entries of segments 1 .. k, in the order a rebuild merges them
RECURSIVE EntriesUpTo(_)
EntriesUpTo(k) == IF k = 0 THEN << >> ELSE EntriesUpTo(k - 1) \o scanSegment(k)

\* C18: rebuild is idempotent.  Once a finished IndexPath has left the
\* path's list with the entries of all its segments, a second IndexPath over
\* the same segments never changes the list: no sentinel and no fragment
\* entry is added a second time.
C18_RebuildIdempotent ==
    [][(pc[1] = "done" /\ entries.list = EntriesUpTo(NumSegs))
          => entries'.list = entries.list]_vars

\* the rule as stated: the offset of the entry before the first entry after
\* start, if there is one and its offset is not 0; otherwise 0
StatedOffset(list, start) ==
    LET n == FirstAfter(list, start, 1) IN
    IF n <= Len(list) /\ n > 1 /\ list[n - 1].offset # 0
    THEN list[n - 1].offset
    ELSE 0

\* C19: FindBestOffset follows the stated rule.  For every sorted list and
\* every start, with n the first entry after start, the result is the
\* preceding entry's offset if n exists, is not the first entry and the
\* preceding entry's offset is not 0, also when entry n is a sentinel; in
\* every other case it is 0.
C19_StatedRule ==
    (look.pc = "done" /\ look.ok /\ IsSorted(look.view))
        => look.result = StatedOffset(look.view, look.start)

\* C20: the pass-2 clamp.  In pass 2 of a GET no Write slices its buffer by
\* a negative length or past its end, no byte behind stream position offset2
\* reaches the client, every byte that reached the client is counted in
\* sent, those of the write that straddles the start of the window too, and
\* the Write that delivers the byte at offset2 returns the end-of-stream
\* signal.
C20_Pass2Clamp ==
    (get.method = "GET" /\ ~get.ww.pass1 /\ get.pc # "idle") =>
        /\ get.pc # "panicked"
        /\ \A i \in 1 .. Len(get.body) : get.body[i] <= get.ww.offset2
        /\ get.ww.sent = Len(get.body)
        /\ (\E i \in 1 .. Len(get.body) : get.body[i] = get.ww.offset2)
               => get.pc \in {"fin", "done"}

\* the entries of the segments of S among 1 .. k, in the order of the list
RECURSIVE EntriesIn(_, _)
EntriesIn(S, k) ==
    IF k = 0 THEN << >>
    ELSE EntriesIn(S, k - 1) \o (IF k \in S THEN scanSegment(k) ELSE << >>)

\* the list PruneIndex leaves: the one it is about to store, or the one it
\* fetched when it returns early
PruneLeaves(p) == IF p.pc = "store" THEN p.out ELSE p.view

\* C21: pruning a deleted segment removes that segment's entries only.  When
\* the list holds the entries of some of the path's segments and PruneIndex
\* is called with the start of segment k, the list it leaves holds the
\* entries of the same segments without k's, also when k has no entries in
\* the list.
C21_PruneOneSegment ==
    [][\A S \in SUBSET Segs : \A k \in Segs :
          (prune.pc = "compute" /\ prune'.pc # "compute" /\ prune.ok
             /\ prune.cut = SegStart(k) /\ prune'.view = EntriesIn(S, NumSegs))
              => PruneLeaves(prune') = EntriesIn(S \ {k}, NumSegs)]_vars

\* the PruneIndex call has run its loops or returned early on the list v
PruneDecides == prune.pc = "compute" /\ prune'.pc # "compute"

\* C22: PruneIndex is a no-op on lists it has nothing to cut from.  When the
\* path is unindexed, its list is empty, or every entry of the list is
\* before cut, PruneIndex returns without storing a list and the path's
\* list is unchanged.
C22_PruneNoOp ==
    [][(PruneDecides
          /\ (\/ ~prune.ok
              \/ prune'.view = << >>
              \/ \A i \in 1 .. Len(prune'.view) : prune'.view[i].time < prune.cut))
          => (prune'.pc = "idle" /\ entries' = entries)]_vars

\* C22 witness: a prune of a non-empty list whose entries are all before the
\* cut has returned and the path's list is the list it fetched
C22_Witness ==
    /\ prune.pc = "idle" /\ prune.ok /\ Len(prune.view) >= 2
    /\ \A i \in 1 .. Len(prune.view) : prune.view[i].time < prune.cut
    /\ entries.list = prune.view

\* C22 as stated: the list is left unchanged when every entry is at or after
\* cut
C22_NoOpAtOrAfterCut ==
    [][(PruneDecides
          /\ (\/ ~prune.ok
              \/ prune'.view = << >>
              \/ \A i \in 1 .. Len(prune'.view) : prune'.view[i].time >= prune.cut))
          => PruneLeaves(prune') = prune'.view]_vars

\* every entry of the list a is in the list b
AllIn(a, b) == \A i \in 1 .. Len(a) : \E j \in 1 .. Len(b) : b[j] = a[i]

\* C23: per-segment failure isolation.  A segment whose sidecar load and
\* scan both fail adds nothing to the path's list and the loop goes on with
\* the next segment; the loop ends only behind the last segment; a segment is
\* left either by such a failure or with its entries merged; persisting a
\* sidecar, failed or not, leaves the merged entries in the list; so the
\* list of a finished rebuild holds, for each segment, all of its entries
\* or none.
C23_FailureIsolation ==
    /\ [][\A r \in Rebuilders :
            /\ (pc[r] = "load" /\ pc'[r] # "merge"
                  /\ (pc'[r] # "load" \/ segi'[r] # segi[r]))
                   => /\ entries' = entries
                      /\ segi'[r] = segi[r] + 1
                      /\ pc'[r] = IF segi[r] < NumSegs THEN "load" ELSE "unlock"
            /\ (segi'[r] # segi[r] /\ pc[r] # "load")
                   => /\ segi'[r] = segi[r] + 1
                      /\ pc[r] \in {"sorting", "persist"}
                      /\ AllIn(lst[r], entries'.list)
            /\ (pc[r] = "persist" /\ pc'[r] # "persist")
                   => (entries' = entries /\ AllIn(lst[r], entries.list))
            /\ (pc[r] # "unlock" /\ pc'[r] = "unlock")
                   => segi'[r] = NumSegs + 1]_vars
    /\ [](pc[1] = "done" =>
             \E S \in SUBSET Segs : entries.list = EntriesIn(S, NumSegs))

\* C23 witness: the first segment's load and scan failed, the last segment
\* was scanned and merged, and its sidecar could not be written
C23_Witness ==
    /\ pc[1] = "done"
    /\ entries.list = scanSegment(NumSegs)
    /\ \A k \in Segs : sidecar[k] = NoFile

\* C24: the shape of a scan.  The list a successful scanSegment returns
\* begins with the sentinel {segment.start, 0} and then holds exactly one
\* entry per fragment of the file, however many tracks the fragment has,
\* with that fragment's offset, in file order, its times never decreasing.
C24_OneEntryPerFragment ==
    (scan.pc = "done" /\ ~scan.err) =>
        /\ scan.out[1] = Entry(scan.start, 0)
        /\ Len(scan.out) = 1 + Len(scan.moofs)
        /\ \A i \in 1 .. Len(scan.moofs) : scan.out[i + 1].offset = scan.moofs[i].offset
        /\ \A i \in 1 .. Len(scan.out) - 1 : scan.out[i].time <= scan.out[i + 1].time

====
